---- MODULE Spec2Model ----
(***************************************************************************)
(* dblogger: the asynchronous log handler (DBLogHandler) and the           *)
(* get-or-create of the model layer (SyncModel).                           *)
(*                                                                         *)
(* Part I models DBLogHandler: emit, called from any thread, appends the   *)
(* record to the queue under the handler's re-entrant lock and spawns the  *)
(* drain task log_emitter when the emitter attribute is None; log_emitter  *)
(* connects lazily, swaps the queue out batch by batch and runs async_emit *)
(* on every record; async_emit resolves the dimensions through the caches  *)
(* and writes the entry.  Python attribute lookup is modelled as it works: *)
(* queue and the five caches are class attributes, so an instance reads    *)
(* the class object until it assigns the attribute itself.                 *)
(*                                                                         *)
(* Part II models SyncModel.load / create / get_or_create run by two       *)
(* processes against one table with a uniqueness constraint.               *)
(***************************************************************************)
EXTENDS Integers, Sequences, FiniteSets, TLC

\* ------------------------------------------------------------- bounds
\* Number of emit calls in a behaviour.
MaxRecords == 3
\* Number of storage calls that fail in a behaviour.
MaxFaults == 1
\* Number of get_or_create calls each process makes in Part II.
MaxResolves == 2

\* ------------------------------------------------------------- universe
Threads == {"t1", "t2"}
AllHandlers == {"h1", "h2"}
TaskIds == 1 .. MaxRecords

\* emitter = None
NoTask == 0
\* a lock nobody holds
NoThread == "free"

\* The LogRecord values the application emits: pathname, name, funcName,
\* lineno and the tags attribute.
ShapeA == [pathname |-> "/a.py", name |-> "app", funcName |-> "f", lineno |-> 1, tags |-> {"x"}]
ShapeB == [pathname |-> "/a.py", name |-> "app", funcName |-> "g", lineno |-> 2, tags |-> {"x", "y"}]
ShapeC == [pathname |-> "/b.py", name |-> "app", funcName |-> "f", lineno |-> 1, tags |-> {}]
RecordShapes == {ShapeA, ShapeB, ShapeC}

\* self.logger_name, the name given to __init__
LoggerNameOf(h) == IF h = "h1" THEN "app" ELSE "audit"

\* socket.gethostname()
HostName == "host1"

Tables == {"source", "function", "logger", "host", "tag"}

\* A model row: the table, the primary key the store assigned and the
\* natural key (the column values it was created from).
Row(tbl, pk, key) == [tbl |-> tbl, pk |-> pk, key |-> key]
NoRow == [tbl |-> "none", pk |-> 0, key |-> <<>>]
IsNone(r) == r.tbl = "none"

VARIABLES
    handlers,    \* the DBLogHandler instances constructed
    appThreads,  \* the threads of the application that log
    appShapes,   \* the LogRecord values the application emits
    faultLimit,  \* the number of storage calls the store lets fail
    emitted,     \* record id -> the LogRecord, in the order emit was called
    clsQueue,    \* DBLogHandler.queue, the class-level list object
    ownSet,      \* h -> whether the instance has a queue attribute of its own
    ownQueue,    \* h -> the instance's own queue list (when ownSet[h])
    emitter,     \* h -> self.emitter: NoTask or the task
    db,          \* h -> self.db is set
    lockOwner,   \* h -> the thread holding self.lock (an RLock), or NoThread
    lockCount,   \* h -> the RLock's recursion count
    thr,         \* thread -> where it is inside emit
    tasks,       \* task id -> the log_emitter coroutine's frame
    caches,      \* cache name -> dict (class-level, shared by the instances)
    tables,      \* dimension table -> sequence of natural keys (pk = index)
    entries,     \* the LogEntry table
    entryTags,   \* the LogEntry-Tag association table
    faults,      \* storage calls that have failed so far
    pushed,      \* h -> record ids in the order they were appended
    swapsAtPush, \* record id -> batches h had swapped out when it was appended
    batches,     \* h -> the batches swapped out, in order
    attempts,    \* h -> the records async_emit was invoked on, in order
    errors,      \* h -> the records handleError was called with, in order
    resolved,    \* {<<table, natural key, pk>>}: what each resolution returned
    calls,       \* storage call <<table, op, ok, key>> -> times it was issued
    gstore,      \* Part II: the shared table, a sequence of natural keys
    gproc        \* Part II: process -> its get_or_create frame

hvars == <<handlers, appThreads, appShapes, faultLimit,
           emitted, clsQueue, ownSet, ownQueue, emitter, db, lockOwner,
           lockCount, thr, tasks, caches, tables, entries, entryTags, faults,
           pushed, swapsAtPush, batches, attempts, errors, resolved, calls>>
gvars == <<gstore, gproc>>
vars == <<hvars, gvars>>

\* ------------------------------------------------------------- helpers
\* self.queue: the instance attribute when set, else the class attribute.
QueueOf(h) == IF ownSet[h] THEN ownQueue[h] ELSE clsQueue

\* q in log_emitter: a reference to the list it swapped out.  The first
\* batch of an instance is the class-level list itself.
BatchOf(tk) == IF tk.cls THEN clsQueue ELSE tk.batch

IdleThread == [pc |-> "idle", h |-> "h1", rec |-> 0]

NoFrame ==
    [h |-> "h1", thread |-> "t1", pc |-> "none", cls |-> FALSE, batch |-> <<>>,
     i |-> 0, src |-> NoRow, func |-> NoRow, logger |-> NoRow, host |-> NoRow,
     entry |-> 0, tagsLeft |-> {}, tags |-> {}, exc |-> "none"]

\* Positions where the coroutine is between two awaits: the event loop of its
\* thread cannot run anything else there.
SyncPcs == {"check", "swap", "clear"}
\* Positions of a task that has no step left.
EndPcs == {"none", "done", "dead"}
\* Positions inside async_emit.
StagePcs == {"src", "func", "logger", "host", "entry", "tag", "addtags"}

Alive(t) == tasks[t].pc \notin EndPcs
AliveTasksOf(h) == {t \in TaskIds : Alive(t) /\ tasks[t].h = h}

\* self.acquire() succeeds now: the RLock is free or held by this thread.
CanAcquire(h, th) == lockOwner[h] \in {NoThread, th}

\* The thread can run synchronous code of its own: it is not inside emit and
\* no coroutine of its event loop is between two awaits.
ThreadFree(th) ==
    /\ thr[th].pc = "idle"
    /\ \A t \in TaskIds : tasks[t].thread = th => tasks[t].pc \notin SyncPcs

\* The event loop of the task's thread can run the task's next step.
CanStep(t) ==
    /\ Alive(t)
    /\ thr[tasks[t].thread].pc = "idle"
    /\ \A u \in TaskIds \ {t} : tasks[u].thread = tasks[t].thread => tasks[u].pc \notin SyncPcs

Put(f, k, v) == [x \in DOMAIN f \cup {k} |-> IF x = k THEN v ELSE f[x]]

RangeOf(s) == {s[i] : i \in DOMAIN s}

\* One storage call: the table, the operation, whether it returned, the key.
Call(op, tbl, key, ok) == <<tbl, op, ok, key>>

\* The call counts after the calls cs were issued once each.
Issued(cs) ==
    [c \in DOMAIN calls \cup cs |->
        (IF c \in DOMAIN calls THEN calls[c] ELSE 0) + (IF c \in cs THEN 1 ELSE 0)]


\* ------------------------------------------------------------- initial state
\* The class body of DBLogHandler and one constructed instance.
InitWith(hs, ths, shapes, limit) ==
    /\ handlers = hs
    /\ appThreads = ths
    /\ appShapes = shapes
    /\ faultLimit = limit
    /\ emitted = <<>>
    /\ clsQueue = <<>>
    /\ ownSet = [h \in AllHandlers |-> FALSE]
    /\ ownQueue = [h \in AllHandlers |-> <<>>]
    /\ emitter = [h \in AllHandlers |-> NoTask]
    /\ db = [h \in AllHandlers |-> FALSE]
    /\ lockOwner = [h \in AllHandlers |-> NoThread]
    /\ lockCount = [h \in AllHandlers |-> 0]
    /\ thr = [th \in Threads |-> IdleThread]
    /\ tasks = [t \in TaskIds |-> NoFrame]
    /\ caches = [c \in Tables |-> <<>>]
    /\ tables = [tb \in Tables |-> <<>>]
    /\ entries = <<>>
    /\ entryTags = {}
    /\ faults = 0
    /\ pushed = [h \in AllHandlers |-> <<>>]
    /\ swapsAtPush = <<>>
    /\ batches = [h \in AllHandlers |-> <<>>]
    /\ attempts = [h \in AllHandlers |-> <<>>]
    /\ errors = [h \in AllHandlers |-> <<>>]
    /\ resolved = {}
    /\ calls = <<>>

\* Part II: the processes, and the natural keys (host names) they resolve.
Procs == {"p1", "p2"}
GKeys == {"host1", "host2"}

\* A process that has resolved nothing yet: its cache is empty.
GIdle ==
    [pc |-> "idle", key |-> "none", item |-> NoRow, n |-> 0, cache |-> <<>>,
     out |-> <<>>, raised |-> {}]

GInit ==
    /\ gstore = <<>>
    /\ gproc = [p \in Procs |-> GIdle]

\* One sink, two threads that log, one record shape, and a store that lets
\* MaxFaults calls fail.
Init == InitWith({"h1"}, Threads, {ShapeA}, MaxFaults) /\ GInit

\* Two instances of the class in one process, used by one thread, and a
\* store that does not fail.
InitMulti == InitWith(AllHandlers, {"t1"}, {ShapeA}, 0) /\ GInit

\* One sink, one thread, records of every shape, and a store that does not
\* fail.
InitData == InitWith({"h1"}, {"t1"}, RecordShapes, 0) /\ GInit

\* ------------------------------------------------------------- emit
\* emit, line 58: self.acquire().  The caller passes the record.
EmitAcquire(th, h, shape) ==
    /\ h \in handlers
    /\ th \in appThreads
    /\ shape \in appShapes
    /\ Len(emitted) < MaxRecords
    /\ ThreadFree(th)
    /\ CanAcquire(h, th)
    /\ lockOwner' = [lockOwner EXCEPT ![h] = th]
    /\ lockCount' = [lockCount EXCEPT ![h] = @ + 1]
    /\ emitted' = Append(emitted, shape)
    /\ thr' = [thr EXCEPT ![th] = [pc |-> "append", h |-> h, rec |-> Len(emitted) + 1]]
    /\ UNCHANGED <<handlers, appThreads, appShapes, faultLimit, clsQueue, ownSet, ownQueue, emitter, db, tasks, caches,
                   tables, entries, entryTags, faults, pushed, swapsAtPush, batches,
                   attempts, errors, resolved, calls, gvars>>

\* An emit that puts the record at the head of the list.
EmitAppendFront(th) ==
    LET h == thr[th].h
        r == thr[th].rec
    IN  /\ thr[th].pc = "append"
        /\ IF ownSet[h]
           THEN /\ ownQueue' = [ownQueue EXCEPT ![h] = <<r>> \o @]
                /\ UNCHANGED clsQueue
           ELSE /\ clsQueue' = <<r>> \o clsQueue
                /\ UNCHANGED ownQueue
        /\ pushed' = [pushed EXCEPT ![h] = Append(@, r)]
        /\ swapsAtPush' = Put(swapsAtPush, r, Len(batches[h]))
        /\ thr' = [thr EXCEPT ![th].pc = "spawn"]
        /\ UNCHANGED <<handlers, appThreads, appShapes, faultLimit, emitted, ownSet,
                       emitter, db, lockOwner, lockCount, tasks, caches, tables,
                       entries, entryTags, faults, batches, attempts, errors,
                       resolved, calls, gvars>>

\* emit, line 59: self.queue.append(record) mutates the list self.queue
\* resolves to.
EmitAppend(th) ==
    LET h == thr[th].h
        r == thr[th].rec
    IN  /\ thr[th].pc = "append"
        /\ IF ownSet[h]
           THEN /\ ownQueue' = [ownQueue EXCEPT ![h] = Append(@, r)]
                /\ UNCHANGED clsQueue
           ELSE /\ clsQueue' = Append(clsQueue, r)
                /\ UNCHANGED ownQueue
        /\ pushed' = [pushed EXCEPT ![h] = Append(@, r)]
        /\ swapsAtPush' = Put(swapsAtPush, r, Len(batches[h]))
        /\ thr' = [thr EXCEPT ![th].pc = "spawn"]
        /\ UNCHANGED <<handlers, appThreads, appShapes, faultLimit, emitted, ownSet, emitter, db, lockOwner, lockCount,
                       tasks, caches, tables, entries, entryTags, faults, batches,
                       attempts, errors, resolved, calls, gvars>>

\* A spawn that does not look at self.emitter.
EmitSpawnAlways(th) ==
    LET h == thr[th].h
        r == thr[th].rec
    IN  /\ thr[th].pc = "spawn"
        /\ tasks' = [tasks EXCEPT ![r] = [NoFrame EXCEPT !.h = h, !.thread = th, !.pc = "start"]]
        /\ emitter' = [emitter EXCEPT ![h] = r]
        /\ thr' = [thr EXCEPT ![th].pc = "release"]
        /\ UNCHANGED <<handlers, appThreads, appShapes, faultLimit, emitted, clsQueue, ownSet, ownQueue, db, lockOwner,
                       lockCount, caches, tables, entries, entryTags, faults, pushed,
                       swapsAtPush, batches, attempts, errors, resolved, calls, gvars>>

\* emit, lines 61-63: if self.emitter is None, create the log_emitter task on
\* the event loop of the calling thread.  The task is named after the record
\* whose emit created it.
EmitSpawn(th) ==
    LET h == thr[th].h
        r == thr[th].rec
    IN  /\ thr[th].pc = "spawn"
        /\ IF emitter[h] = NoTask
           THEN /\ tasks' = [tasks EXCEPT ![r] = [NoFrame EXCEPT !.h = h, !.thread = th, !.pc = "start"]]
                /\ emitter' = [emitter EXCEPT ![h] = r]
           ELSE UNCHANGED <<tasks, emitter>>
        /\ thr' = [thr EXCEPT ![th].pc = "release"]
        /\ UNCHANGED <<handlers, appThreads, appShapes, faultLimit, emitted, clsQueue, ownSet, ownQueue, db, lockOwner,
                       lockCount, caches, tables, entries, entryTags, faults, pushed,
                       swapsAtPush, batches, attempts, errors, resolved, calls, gvars>>

\* The RLock after one release by its owner.
Released(h) ==
    [owner |-> IF lockCount[h] = 1 THEN NoThread ELSE lockOwner[h],
     count |-> lockCount[h] - 1]

\* emit, line 64: self.release().
EmitRelease(th) ==
    LET h == thr[th].h
    IN  /\ thr[th].pc = "release"
        /\ lockOwner' = [lockOwner EXCEPT ![h] = Released(h).owner]
        /\ lockCount' = [lockCount EXCEPT ![h] = Released(h).count]
        /\ thr' = [thr EXCEPT ![th] = IdleThread]
        /\ UNCHANGED <<handlers, appThreads, appShapes, faultLimit, emitted, clsQueue, ownSet, ownQueue, emitter, db,
                       tasks, caches, tables, entries, entryTags, faults, pushed,
                       swapsAtPush, batches, attempts, errors, resolved, calls, gvars>>

\* ------------------------------------------------------------- log_emitter
\* A first step that connects whether or not self.db is set.
TaskStartReconnect(t) ==
    LET h == tasks[t].h
        th == tasks[t].thread
    IN  /\ tasks[t].pc = "start"
        /\ CanStep(t)
        /\ CanAcquire(h, th)
        /\ lockOwner' = [lockOwner EXCEPT ![h] = th]
        /\ lockCount' = [lockCount EXCEPT ![h] = @ + 1]
        /\ tasks' = [tasks EXCEPT ![t].pc = "connect"]
        /\ UNCHANGED <<handlers, appThreads, appShapes, faultLimit, emitted, clsQueue, ownSet, ownQueue, emitter, db, thr,
                       caches, tables, entries, entryTags, faults, pushed, swapsAtPush,
                       batches, attempts, errors, resolved, calls, gvars>>

\* log_emitter, lines 67-71: the first step of the task.  With no connection
\* yet it takes the lock and awaits connect(), the lock held.
TaskStart(t) ==
    LET h == tasks[t].h
        th == tasks[t].thread
    IN  /\ tasks[t].pc = "start"
        /\ CanStep(t)
        /\ IF db[h]
           THEN /\ tasks' = [tasks EXCEPT ![t].pc = "check"]
                /\ UNCHANGED <<lockOwner, lockCount>>
           ELSE /\ CanAcquire(h, th)
                /\ lockOwner' = [lockOwner EXCEPT ![h] = th]
                /\ lockCount' = [lockCount EXCEPT ![h] = @ + 1]
                /\ tasks' = [tasks EXCEPT ![t].pc = "connect"]
        /\ UNCHANGED <<handlers, appThreads, appShapes, faultLimit, emitted, clsQueue, ownSet, ownQueue, emitter, db, thr,
                       caches, tables, entries, entryTags, faults, pushed, swapsAtPush,
                       batches, attempts, errors, resolved, calls, gvars>>

\* log_emitter, lines 71-72: the await on connect() ends.  connect() returns:
\* self.db is set and the lock released.  Or connect() raises: the exception
\* leaves the coroutine, and neither line 72 nor line 83 runs.
Connect(t) ==
    LET h == tasks[t].h
    IN  /\ tasks[t].pc = "connect"
        /\ CanStep(t)
        /\ \/ /\ db' = [db EXCEPT ![h] = TRUE]
              /\ calls' = Issued({Call("connect", "db", h, TRUE)})
              /\ lockOwner' = [lockOwner EXCEPT ![h] = Released(h).owner]
              /\ lockCount' = [lockCount EXCEPT ![h] = Released(h).count]
              /\ tasks' = [tasks EXCEPT ![t].pc = "check"]
              /\ UNCHANGED faults
           \/ /\ faults < faultLimit
              /\ faults' = faults + 1
              /\ calls' = Issued({Call("connect", "db", h, FALSE)})
              /\ tasks' = [tasks EXCEPT ![t].pc = "dead", ![t].exc = "connect"]
              /\ UNCHANGED <<db, lockOwner, lockCount>>
        /\ UNCHANGED <<handlers, appThreads, appShapes, faultLimit, emitted, clsQueue, ownSet,
                       ownQueue, emitter, thr, caches, tables, entries, entryTags,
                       pushed, swapsAtPush, batches, attempts, errors, resolved,
                       gvars>>

\* log_emitter, line 74: while len(self.queue) > 0, read without the lock.
TaskCheck(t) ==
    /\ tasks[t].pc = "check"
    /\ CanStep(t)
    /\ tasks' = [tasks EXCEPT ![t].pc = IF Len(QueueOf(tasks[t].h)) > 0 THEN "swap" ELSE "clear"]
    /\ UNCHANGED <<handlers, appThreads, appShapes, faultLimit, emitted, clsQueue, ownSet, ownQueue, emitter, db, lockOwner,
                   lockCount, thr, caches, tables, entries, entryTags, faults, pushed,
                   swapsAtPush, batches, attempts, errors, resolved, calls, gvars>>

\* The frame with the locals of async_emit cleared.
Cleared(tk) ==
    [tk EXCEPT !.src = NoRow, !.func = NoRow, !.logger = NoRow, !.host = NoRow,
               !.entry = 0, !.tagsLeft = {}, !.tags = {}]

\* log_emitter, lines 80-81: the for loop takes the next record of q and
\* calls async_emit on it, or ends and goes back to line 74.  tk is the frame
\* as the step before left it.
Advance(t, tk) ==
    IF tk.i < Len(BatchOf(tk))
    THEN /\ tasks' = [tasks EXCEPT ![t] = [Cleared(tk) EXCEPT !.i = tk.i + 1, !.pc = "src"]]
         /\ attempts' = [attempts EXCEPT ![tk.h] = Append(@, BatchOf(tk)[tk.i + 1])]
    ELSE /\ tasks' = [tasks EXCEPT ![t] = [Cleared(tk) EXCEPT !.pc = "check"]]
         /\ UNCHANGED attempts

\* log_emitter, lines 75-78: under the lock, q = self.queue and
\* self.queue = [] (which gives the instance a queue attribute of its own);
\* then the for loop starts.
TaskSwap(t) ==
    LET h == tasks[t].h
        th == tasks[t].thread
    IN  /\ tasks[t].pc = "swap"
        /\ CanStep(t)
        /\ CanAcquire(h, th)
        /\ ownSet' = [ownSet EXCEPT ![h] = TRUE]
        /\ ownQueue' = [ownQueue EXCEPT ![h] = <<>>]
        /\ batches' = [batches EXCEPT ![h] = Append(@, QueueOf(h))]
        /\ Advance(t, [tasks[t] EXCEPT !.cls = ~ownSet[h], !.i = 0,
                                       !.batch = IF ownSet[h] THEN ownQueue[h] ELSE <<>>])
        /\ UNCHANGED <<handlers, appThreads, appShapes, faultLimit, emitted, clsQueue, emitter, db, lockOwner, lockCount,
                       thr, caches, tables, entries, entryTags, faults, pushed,
                       swapsAtPush, errors, resolved, calls, gvars>>

\* log_emitter, line 83: self.emitter = None, written without the lock; the
\* coroutine returns.
TaskClear(t) ==
    /\ tasks[t].pc = "clear"
    /\ CanStep(t)
    /\ emitter' = [emitter EXCEPT ![tasks[t].h] = NoTask]
    /\ tasks' = [tasks EXCEPT ![t].pc = "done"]
    /\ UNCHANGED <<handlers, appThreads, appShapes, faultLimit, emitted, clsQueue, ownSet, ownQueue, db, lockOwner,
                   lockCount, thr, caches, tables, entries, entryTags, faults, pushed,
                   swapsAtPush, batches, attempts, errors, resolved, calls, gvars>>


\* ------------------------------------------------------------- storage
\* load: SELECT ... WHERE <natural key>, fetchone(); rows is the table as a
\* sequence of natural keys, the primary key being the position.
Load(rows, tbl, key) ==
    IF \E i \in DOMAIN rows : rows[i] = key
    THEN Row(tbl, CHOOSE i \in DOMAIN rows : rows[i] = key /\ \A j \in 1 .. (i - 1) : rows[j] # key, key)
    ELSE NoRow

\* create: INSERT ... RETURNING *, the row the insert returns.
Created(rows, tbl, key) == Row(tbl, Len(rows) + 1, key)

\* get_or_create as the drain task sees it (one await): the row returned.
GetOrCreate(tbl, key) ==
    IF IsNone(Load(tables[tbl], tbl, key))
    THEN Created(tables[tbl], tbl, key)
    ELSE Load(tables[tbl], tbl, key)

\* get_or_create: the table after the call.
GetOrCreateStore(tbl, key) ==
    IF IsNone(Load(tables[tbl], tbl, key))
    THEN [tables EXCEPT ![tbl] = Append(@, key)]
    ELSE tables

\* get_or_create: the storage calls a successful get_or_create issues.
GetOrCreateCalls(tbl, key) ==
    IF IsNone(Load(tables[tbl], tbl, key))
    THEN {Call("get_or_create", tbl, key, TRUE), Call("load", tbl, key, TRUE),
          Call("create", tbl, key, TRUE)}
    ELSE {Call("get_or_create", tbl, key, TRUE), Call("load", tbl, key, TRUE)}

\* The storage calls of a get_or_create that raises: load raises, or load
\* returns None and create raises.
FailedCalls(tbl, key) ==
    {{Call("get_or_create", tbl, key, FALSE), Call("load", tbl, key, FALSE)}}
        \cup (IF IsNone(Load(tables[tbl], tbl, key))
              THEN {{Call("get_or_create", tbl, key, FALSE), Call("load", tbl, key, TRUE),
                     Call("create", tbl, key, FALSE)}}
              ELSE {})

\* ------------------------------------------------------------- async_emit
\* The record the task is running async_emit on.
RecIdOf(tk) == BatchOf(tk)[tk.i]
RecOf(tk) == emitted[RecIdOf(tk)]

\* A cache assignment that is left out.
CachePutNothing(c, ckey, row) == caches

\* A cache assignment that forgets the other keys of the cache.
CachePutReset(c, ckey, row) == [caches EXCEPT ![c] = Put(<<>>, ckey, row)]

\* self.<c>_cache[ckey] = row (lines 90, 101, 106, 112, 131).
CachePut(c, ckey, row) == [caches EXCEPT ![c] = Put(@, ckey, row)]

\* A failed get_or_create that leaves an entry without a row under the key.
CacheAfterRaiseStoresNone(c, ckey) == [caches EXCEPT ![c] = Put(@, ckey, NoRow)]

\* The caches when the await of get_or_create raised (lines 89, 95, 105, 111,
\* 130): the assignment that follows the await is not reached.
CacheAfterRaise(c, ckey) == caches

\* An async_emit without the try/except: the exception of the storage call
\* leaves async_emit and log_emitter with it.
HandleErrorCrash(t) ==
    /\ faults < faultLimit
    /\ faults' = faults + 1
    /\ tasks' = [tasks EXCEPT ![t].pc = "dead", ![t].exc = "record"]
    /\ UNCHANGED <<errors, attempts>>

\* except Exception: self.handleError(record) (lines 137-138); async_emit
\* returns and the for loop of log_emitter goes on.
HandleError(t) ==
    /\ faults < faultLimit
    /\ faults' = faults + 1
    /\ errors' = [errors EXCEPT ![tasks[t].h] = Append(@, RecIdOf(tasks[t]))]
    /\ Advance(t, tasks[t])

\* The frame of async_emit once the row of dimension c is bound: src (line
\* 90), func (101), logger (106), host (112), tags.append(tag) (133).
Bound(tk, c, row) ==
    CASE c = "source" -> [tk EXCEPT !.src = row, !.pc = "func"]
      [] c = "function" -> [tk EXCEPT !.func = row, !.pc = "logger"]
      [] c = "logger" -> [tk EXCEPT !.logger = row, !.pc = "host"]
      [] c = "host" -> [tk EXCEPT !.host = row, !.pc = "entry"]
      [] c = "tag" -> [tk EXCEPT !.tags = @ \cup {row.pk},
                                 !.tagsLeft = @ \ {row.key},
                                 !.pc = IF tk.tagsLeft = {row.key}
                                        THEN "addtags" ELSE "tag"]

\* One dimension of async_emit: the cache is asked first; on a miss
\* get_or_create is awaited and its row cached under ckey.  nkey is the
\* natural key get_or_create is called with.
Resolve(t, c, ckey, nkey) ==
    IF ckey \in DOMAIN caches[c]
    THEN /\ tasks' = [tasks EXCEPT ![t] = Bound(tasks[t], c, caches[c][ckey])]
         /\ resolved' = resolved \cup {<<c, nkey, caches[c][ckey].pk>>}
         /\ UNCHANGED <<caches, tables, calls, faults, errors, attempts>>
    ELSE \/ /\ tables' = GetOrCreateStore(c, nkey)
            /\ calls' = Issued(GetOrCreateCalls(c, nkey))
            /\ caches' = CachePut(c, ckey, GetOrCreate(c, nkey))
            /\ tasks' = [tasks EXCEPT ![t] = Bound(tasks[t], c, GetOrCreate(c, nkey))]
            /\ resolved' = resolved \cup {<<c, nkey, GetOrCreate(c, nkey).pk>>}
            /\ UNCHANGED <<faults, errors, attempts>>
         \/ /\ \E cs \in FailedCalls(c, nkey) : calls' = Issued(cs)
            /\ caches' = CacheAfterRaise(c, ckey)
            /\ HandleError(t)
            /\ UNCHANGED <<tables, resolved>>

\* f'{record.name}.{record.funcName}' (line 97)
FuncName(r) == <<r.name, ".", r.funcName>>

\* A func_key without the source path.
FuncKeyNoPath(r, src) == FuncName(r) \o <<":", r.lineno>>

\* func_key, line 92: f'{record.name}.{record.funcName}:{record.lineno}@{src.path}'
FuncKey(r, src) == FuncName(r) \o <<":", r.lineno, "@", src.key>>

\* async_emit, lines 87-90: the source file.
ResolveSrc(t) ==
    /\ tasks[t].pc = "src"
    /\ CanStep(t)
    /\ Resolve(t, "source", RecOf(tasks[t]).pathname, RecOf(tasks[t]).pathname)
    /\ UNCHANGED <<handlers, appThreads, appShapes, faultLimit, emitted, clsQueue, ownSet, ownQueue, emitter, db, lockOwner,
                   lockCount, thr, entries, entryTags, pushed, swapsAtPush, batches, gvars>>

\* async_emit, lines 92-101: the function, keyed by func_key in the cache and
\* by name, line_number and source_id in the store.
ResolveFunc(t) ==
    /\ tasks[t].pc = "func"
    /\ CanStep(t)
    /\ Resolve(t, "function", FuncKey(RecOf(tasks[t]), tasks[t].src),
               <<FuncName(RecOf(tasks[t])), RecOf(tasks[t]).lineno, tasks[t].src.pk>>)
    /\ UNCHANGED <<handlers, appThreads, appShapes, faultLimit, emitted, clsQueue, ownSet, ownQueue, emitter, db, lockOwner,
                   lockCount, thr, entries, entryTags, pushed, swapsAtPush, batches, gvars>>

\* async_emit, lines 103-106: the logger, by self.logger_name.
ResolveLogger(t) ==
    /\ tasks[t].pc = "logger"
    /\ CanStep(t)
    /\ Resolve(t, "logger", LoggerNameOf(tasks[t].h), LoggerNameOf(tasks[t].h))
    /\ UNCHANGED <<handlers, appThreads, appShapes, faultLimit, emitted, clsQueue, ownSet, ownQueue, emitter, db, lockOwner,
                   lockCount, thr, entries, entryTags, pushed, swapsAtPush, batches, gvars>>

\* async_emit, lines 108-112: the host, by socket.gethostname().
ResolveHost(t) ==
    /\ tasks[t].pc = "host"
    /\ CanStep(t)
    /\ Resolve(t, "host", HostName, HostName)
    /\ UNCHANGED <<handlers, appThreads, appShapes, faultLimit, emitted, clsQueue, ownSet, ownQueue, emitter, db, lockOwner,
                   lockCount, thr, entries, entryTags, pushed, swapsAtPush, batches, gvars>>

\* async_emit, lines 114-126: LogEntry.create with the three resolved ids,
\* then tags_names = getattr(record, 'tags', set()) and tags = [].
CreateEntry(t) ==
    LET tk == tasks[t]
        row == [rec |-> RecIdOf(tk), function_id |-> tk.func.pk,
                logger_id |-> tk.logger.pk, hostname_id |-> tk.host.pk]
    IN  /\ tk.pc = "entry"
        /\ CanStep(t)
        /\ \/ /\ entries' = Append(entries, row)
              /\ calls' = Issued({Call("create", "entry", RecIdOf(tk), TRUE)})
              /\ tasks' = [tasks EXCEPT ![t] =
                               [tk EXCEPT !.entry = Len(entries) + 1,
                                          !.tagsLeft = RecOf(tk).tags,
                                          !.tags = {},
                                          !.pc = IF RecOf(tk).tags = {} THEN "addtags" ELSE "tag"]]
              /\ UNCHANGED <<faults, errors, attempts>>
           \/ /\ calls' = Issued({Call("create", "entry", RecIdOf(tk), FALSE)})
              /\ HandleError(t)
              /\ UNCHANGED entries
        /\ UNCHANGED <<handlers, appThreads, appShapes, faultLimit, emitted, clsQueue, ownSet, ownQueue, emitter, db, lockOwner,
                       lockCount, thr, caches, tables, entryTags, pushed, swapsAtPush,
                       batches, resolved, gvars>>

\* async_emit, lines 127-133: one iteration of the loop over the tag set
\* (a set: the order is the interpreter's).
ResolveTag(t) ==
    /\ tasks[t].pc = "tag"
    /\ CanStep(t)
    /\ \E tg \in tasks[t].tagsLeft :
           Resolve(t, "tag", tg, tg)
    /\ UNCHANGED <<handlers, appThreads, appShapes, faultLimit, emitted, clsQueue, ownSet, ownQueue, emitter, db, lockOwner,
                   lockCount, thr, entries, entryTags, pushed, swapsAtPush, batches, gvars>>

\* async_emit, line 135: entry.add_tags(self.db, tags).
AddTags(t) ==
    LET tk == tasks[t]
    IN  /\ tk.pc = "addtags"
        /\ CanStep(t)
        /\ \/ /\ entryTags' = entryTags \cup {<<tk.entry, tg>> : tg \in tk.tags}
              /\ calls' = Issued({Call("add_tags", "entry", RecIdOf(tk), TRUE)})
              /\ Advance(t, tk)
              /\ UNCHANGED <<faults, errors>>
           \/ /\ calls' = Issued({Call("add_tags", "entry", RecIdOf(tk), FALSE)})
              /\ HandleError(t)
              /\ UNCHANGED entryTags
        /\ UNCHANGED <<handlers, appThreads, appShapes, faultLimit, emitted, clsQueue, ownSet, ownQueue, emitter, db, lockOwner,
                       lockCount, thr, caches, tables, entries, pushed, swapsAtPush,
                       batches, resolved, gvars>>

\* ------------------------------------------------------------- Part I
Next ==
    \/ \E th \in Threads, h \in AllHandlers, shape \in RecordShapes : EmitAcquire(th, h, shape)
    \/ \E th \in Threads : EmitAppend(th)
    \/ \E th \in Threads : EmitSpawn(th)
    \/ \E th \in Threads : EmitRelease(th)
    \/ \E t \in TaskIds : TaskStart(t)
    \/ \E t \in TaskIds : Connect(t)
    \/ \E t \in TaskIds : TaskCheck(t)
    \/ \E t \in TaskIds : TaskSwap(t)
    \/ \E t \in TaskIds : ResolveSrc(t)
    \/ \E t \in TaskIds : ResolveFunc(t)
    \/ \E t \in TaskIds : ResolveLogger(t)
    \/ \E t \in TaskIds : ResolveHost(t)
    \/ \E t \in TaskIds : CreateEntry(t)
    \/ \E t \in TaskIds : ResolveTag(t)
    \/ \E t \in TaskIds : AddTags(t)
    \/ \E t \in TaskIds : TaskClear(t)

\* One sink.
Spec == Init /\ [][Next]_vars

\* Two sinks of the same class in one process.
SpecMulti == InitMulti /\ [][Next]_vars

\* One sink draining records of every shape.
SpecData == InitData /\ [][Next]_vars

\* A step of a drain task: the event loop runs a task that is ready.
TaskStep ==
    \E t \in TaskIds :
        \/ TaskStart(t) \/ Connect(t) \/ TaskCheck(t) \/ TaskSwap(t)
        \/ ResolveSrc(t) \/ ResolveFunc(t) \/ ResolveLogger(t) \/ ResolveHost(t)
        \/ CreateEntry(t) \/ ResolveTag(t) \/ AddTags(t) \/ TaskClear(t)

\* A step of a thread that is inside emit (lines 59-64).
EmitStep == \E th \in Threads : EmitAppend(th) \/ EmitSpawn(th) \/ EmitRelease(th)

\* One sink under fair scheduling: a thread inside emit goes on to its
\* return, the event loop goes on running the tasks that are ready and every
\* storage call returns or raises.  The application may stop calling emit at
\* any time.
SpecLive == Init /\ [][Next]_vars /\ WF_vars(TaskStep) /\ WF_vars(EmitStep)

\* ------------------------------------------------------------- Part II
\* Two processes, each with a cache of its own, resolve host names with
\* SyncModel.get_or_create against one table that has a uniqueness
\* constraint on the natural key.

\* A resolution as in async_emit, lines 109-111: the cache is asked first; on
\* a miss get_or_create is called.
GResolve(p, k) ==
    /\ gproc[p].pc = "idle"
    /\ gproc[p].n < MaxResolves
    /\ IF k \in DOMAIN gproc[p].cache
       THEN gproc' = [gproc EXCEPT ![p].n = @ + 1,
                                   ![p].out = Put(@, k, gproc[p].cache[k].pk)]
       ELSE gproc' = [gproc EXCEPT ![p].n = @ + 1, ![p].key = k, ![p].pc = "load"]
    /\ UNCHANGED <<gstore, hvars>>

\* get_or_create, lines 54-55: item = cls.load(db, **kwargs); if item is None
\* the create follows.
GLoad(p) ==
    /\ gproc[p].pc = "load"
    /\ gproc' = [gproc EXCEPT ![p].item = Load(gstore, "host", gproc[p].key),
                               ![p].pc = IF IsNone(Load(gstore, "host", gproc[p].key))
                                         THEN "create" ELSE "return"]
    /\ UNCHANGED <<gstore, hvars>>

\* create, lines 39-50: the INSERT.  Without ON CONFLICT a row whose natural
\* key is in the table violates the constraint and execute raises; with
\* ON CONFLICT DO NOTHING nothing is inserted and RETURNING * gives no row.
CreateOutcome(rows, key, ignore_conflicts) ==
    IF \E i \in DOMAIN rows : rows[i] = key
    THEN IF ignore_conflicts THEN "norow" ELSE "raise"
    ELSE "inserted"

\* get_or_create, line 56: item = cls.create(db, **kwargs); ignore_conflicts
\* keeps its default, False.  An exception leaves get_or_create.
GCreate(p) ==
    LET k == gproc[p].key
        res == CreateOutcome(gstore, k, FALSE)
    IN  /\ gproc[p].pc = "create"
        /\ IF res = "inserted"
           THEN /\ gstore' = Append(gstore, k)
                /\ gproc' = [gproc EXCEPT ![p].item = Created(gstore, "host", k),
                                           ![p].pc = "return"]
           ELSE /\ gproc' = [gproc EXCEPT ![p].item = NoRow,
                                           ![p].pc = "idle",
                                           ![p].raised = @ \cup (IF res = "raise" THEN {k} ELSE {}),
                                           ![p].out = Put(@, k, 0)]
                /\ UNCHANGED gstore
        /\ UNCHANGED hvars

\* get_or_create, line 57: return item; the caller caches the row
\* (async_emit, line 112).
GReturn(p) ==
    /\ gproc[p].pc = "return"
    /\ gproc' = [gproc EXCEPT ![p].pc = "idle",
                               ![p].cache = Put(@, gproc[p].key, gproc[p].item),
                               ![p].out = Put(@, gproc[p].key, gproc[p].item.pk)]
    /\ UNCHANGED <<gstore, hvars>>

NextGoc ==
    \/ \E p \in Procs, k \in GKeys : GResolve(p, k)
    \/ \E p \in Procs : GLoad(p)
    \/ \E p \in Procs : GCreate(p)
    \/ \E p \in Procs : GReturn(p)

SpecGoc == Init /\ [][NextGoc]_vars

\* ------------------------------------------------------------- properties
\* The threads that are inside emit of handler h.
Emitting(h) == {th \in Threads : thr[th].pc # "idle" /\ thr[th].h = h}

\* The records of a sequence of batches, one after the other.
RECURSIVE Flatten(_)
Flatten(bs) == IF bs = <<>> THEN <<>> ELSE Head(bs) \o Flatten(Tail(bs))

\* The number of positions of sequence s that hold x.
Count(s, x) == Cardinality({i \in DOMAIN s : s[i] = x})

\* The lock of the task's handler is held on behalf of the task (its thread
\* owns the RLock, beyond the level an emit of that thread accounts for).
TaskHoldsLock(t) ==
    /\ lockOwner[tasks[t].h] = tasks[t].thread
    /\ lockCount[tasks[t].h] > Cardinality(Emitting(tasks[t].h) \cap {tasks[t].thread})

\* The task is suspended on a storage call: connect, a get_or_create (on a
\* cache miss), the entry insert or the tag association.
InStorageCall(t) ==
    \/ tasks[t].pc \in {"connect", "entry", "addtags"}
    \/ tasks[t].pc = "src" /\ RecOf(tasks[t]).pathname \notin DOMAIN caches["source"]
    \/ tasks[t].pc = "func" /\ FuncKey(RecOf(tasks[t]), tasks[t].src) \notin DOMAIN caches["function"]
    \/ tasks[t].pc = "logger" /\ LoggerNameOf(tasks[t].h) \notin DOMAIN caches["logger"]
    \/ tasks[t].pc = "host" /\ HostName \notin DOMAIN caches["host"]
    \/ tasks[t].pc = "tag" /\ \E tg \in tasks[t].tagsLeft : tg \notin DOMAIN caches["tag"]

\* C1: for one sink, under every interleaving of emit calls from any thread
\* with the steps of log_emitter, at most one drain task has steps left to
\* run, and the emitter flag is never None while such a task exists.
C1_SingleDrainTask ==
    \A h \in handlers :
        /\ Cardinality(AliveTasksOf(h)) <= 1
        /\ emitter[h] = NoTask => AliveTasksOf(h) = {}

\* C1 witness: an emit has found the flag set, and so spawned nothing, while
\* the one drain task is inside async_emit.
C1_Witness ==
    \E th \in Threads :
        /\ thr[th].pc = "release"
        /\ emitter[thr[th].h] # NoTask
        /\ emitter[thr[th].h] # thr[th].rec
        /\ tasks[emitter[thr[th].h]].pc \in StagePcs

\* C2 (as claimed): whenever the emitter flag of a sink is None and no emit
\* on it is in progress, its queue is empty and async_emit has been invoked
\* on every record pushed to it.
C2_NoLostRecords ==
    \A h \in handlers :
        (emitter[h] = NoTask /\ Emitting(h) = {}) =>
            /\ QueueOf(h) = <<>>
            /\ \A r \in RangeOf(pushed[h]) : r \in RangeOf(attempts[h])

\* C3 (as claimed): with several sinks in one process, async_emit is invoked
\* on each accepted record at most once, and only by the sink that accepted
\* it.
C3_NoDuplicates ==
    \A r \in DOMAIN emitted :
        /\ Cardinality({<<h, i>> \in AllHandlers \X (1 .. MaxRecords * 2) :
                            i \in DOMAIN attempts[h] /\ attempts[h][i] = r}) <= 1
        /\ \A h \in handlers : r \in RangeOf(attempts[h]) => r \in RangeOf(pushed[h])

\* C4 (as claimed): the handler lock is never held for the drain task while
\* the task is suspended on a storage call.
C4_LockFreeDuringStorage ==
    \A t \in TaskIds : (Alive(t) /\ InStorageCall(t)) => ~TaskHoldsLock(t)

\* The number of handleError calls so far.
ErrorCount ==
    Cardinality({<<h, i>> \in AllHandlers \X (1 .. MaxFaults) : i \in DOMAIN errors[h]})

\* C5: a storage failure inside async_emit is reported through handleError
\* and ends no drain task (a task ends abnormally only in connect); every
\* record of every batch swapped out has had async_emit invoked on it, but for
\* the records that still follow in the batch a live task is draining.
C5_FailureIsolation ==
    /\ \A t \in TaskIds : tasks[t].pc = "dead" => tasks[t].exc = "connect"
    /\ faults = ErrorCount + Cardinality({t \in TaskIds : tasks[t].pc = "dead"})
    /\ \A h \in handlers : \A b \in DOMAIN batches[h] : \A j \in DOMAIN batches[h][b] :
           \/ batches[h][b][j] \in RangeOf(attempts[h])
           \/ \E t \in AliveTasksOf(h) :
                  /\ tasks[t].pc \in StagePcs
                  /\ b = Len(batches[h])
                  /\ j > tasks[t].i

\* C5 witness: of a batch of three records the second failed and was
\* reported, and async_emit has been invoked on all three.
C5_Witness ==
    \E h \in handlers :
        /\ Len(batches[h]) = 1
        /\ Len(batches[h][1]) = 3
        /\ errors[h] = <<batches[h][1][2]>>
        /\ attempts[h] = batches[h][1]

\* C6: the records of the batches, batch after batch, followed by the queue
\* are the records in the order they were pushed (so a record is in the queue
\* or in exactly one batch, in push order); async_emit is invoked on them in
\* that order; and a record is in the first batch swapped out after its push.
C6_FifoBatches ==
    \A h \in handlers :
        /\ Flatten(batches[h]) \o QueueOf(h) = pushed[h]
        /\ Len(attempts[h]) <= Len(Flatten(batches[h]))
        /\ \A i \in DOMAIN attempts[h] : attempts[h][i] = Flatten(batches[h])[i]
        /\ \A b \in DOMAIN batches[h] : \A j \in DOMAIN batches[h][b] :
               swapsAtPush[batches[h][b][j]] = b - 1

\* C6 witness: a first batch of two records was drained in push order, and a
\* record pushed during that drain was taken by the next batch.
C6_Witness ==
    \E h \in handlers :
        /\ Len(batches[h]) = 2
        /\ Len(batches[h][1]) = 2
        /\ swapsAtPush[batches[h][2][1]] = 1
        /\ attempts[h] = Flatten(batches[h])

\* C7 (as claimed): get_or_create never raises; a create that meets a row
\* another process inserted after the load is answered with that row.
C7_AbsorbsDuplicate ==
    \A p \in Procs : gproc[p].raised = {}

\* C8 (as claimed): the store never holds two rows for a natural key, and
\* the resolutions of a key that two processes have completed both ended with
\* a row, the same one.
C8_Converges ==
    /\ \A k \in GKeys : Count(gstore, k) <= 1
    /\ \A p \in Procs, q \in Procs, k \in GKeys :
           (k \in DOMAIN gproc[p].out /\ k \in DOMAIN gproc[q].out) =>
               /\ gproc[p].out[k] # 0
               /\ gproc[p].out[k] = gproc[q].out[k]

\* How often the storage call c was issued.
CallCount(c) == IF c \in DOMAIN calls THEN calls[c] ELSE 0

\* Two resolutions of a natural key of a dimension return the same row id.
SameIdPerKey ==
    \A x \in resolved, y \in resolved : (x[1] = y[1] /\ x[2] = y[2]) => x[3] = y[3]

\* C9 (as claimed): two resolutions of a natural key return the same row id,
\* and at most one create call is issued to the store for the key.
C9_AtMostOneCreateCall ==
    /\ SameIdPerKey
    /\ \A c \in DOMAIN calls :
           (c[1] \in Tables /\ c[2] = "create") =>
               CallCount(Call("create", c[1], c[4], TRUE))
                   + CallCount(Call("create", c[1], c[4], FALSE)) <= 1

\* C9 (amended): two resolutions of a natural key return the same row id,
\* and for each key at most one get_or_create call, and so at most one create
\* call, succeeds.
C9_CacheIdempotence ==
    /\ SameIdPerKey
    /\ \A c \in DOMAIN calls :
           (c[1] \in Tables /\ c[2] \in {"get_or_create", "create"} /\ c[3]) => calls[c] <= 1

\* C9 witness: the create for the source path failed once and succeeded for
\* the next record, and a third record has resolved the path from the cache.
C9_Witness ==
    /\ CallCount(Call("create", "source", ShapeA.pathname, FALSE)) = 1
    /\ CallCount(Call("create", "source", ShapeA.pathname, TRUE)) = 1
    /\ \E t \in TaskIds :
           /\ tasks[t].pc = "func"
           /\ Len(attempts[tasks[t].h]) = 3
           /\ tasks[t].src.pk = 1

\* The records async_emit has returned from without an exception.
Completed(h) ==
    {r \in RangeOf(attempts[h]) :
        /\ r \notin RangeOf(errors[h])
        /\ ~\E t \in AliveTasksOf(h) : tasks[t].pc \in StagePcs /\ RecIdOf(tasks[t]) = r}

\* The natural keys of a dimension the records processed so far came with.
KeysSeen(tbl) == {x[2] : x \in {y \in resolved : y[1] = tbl}}

\* The LogEntry rows written for record r.
EntriesOf(r) == {e \in DOMAIN entries : entries[e].rec = r}

\* C10: with a store that does not fail, each dimension table holds one row
\* per distinct natural key seen; every processed record has exactly one
\* LogEntry row, which references the Function row of its name, line and
\* source file and is linked to exactly the Tag rows of its tag set.
C10_Normalized ==
    faults = 0 =>
        /\ \A tbl \in Tables :
               /\ Len(tables[tbl]) = Cardinality(KeysSeen(tbl))
               /\ RangeOf(tables[tbl]) = KeysSeen(tbl)
        /\ \A r \in DOMAIN emitted : Cardinality(EntriesOf(r)) <= 1
        /\ \A h \in handlers : \A r \in Completed(h) :
               /\ Cardinality(EntriesOf(r)) = 1
               /\ \A e \in EntriesOf(r) :
                      /\ {x[2] : x \in {y \in entryTags : y[1] = e}}
                             = {Load(tables["tag"], "tag", n).pk : n \in emitted[r].tags}
                      /\ entries[e].function_id \in DOMAIN tables["function"]
                      /\ tables["function"][entries[e].function_id]
                             = <<FuncName(emitted[r]), emitted[r].lineno,
                                 Load(tables["source"], "source", emitted[r].pathname).pk>>
                      /\ Load(tables["source"], "source", emitted[r].pathname).pk # 0

\* C10 witness: two records with the same path, function, line, logger and
\* tag were processed: one row in each dimension table, two LogEntry rows,
\* both linked to the one Tag row.
C10_Witness ==
    /\ Len(emitted) >= 2
    /\ emitted[1] = ShapeA
    /\ emitted[2] = ShapeA
    /\ \E h \in handlers : {1, 2} \subseteq Completed(h)
    /\ \A tbl \in Tables : Len(tables[tbl]) = 1
    /\ Len(entries) = 2
    /\ entryTags = {<<1, 1>>, <<2, 1>>}

\* C11 (as claimed): a drain task that is about to read the length of the
\* queue (line 74) or to write the emitter flag (line 83) holds the handler
\* lock.
C11_LockDiscipline ==
    \A t \in TaskIds :
        (Alive(t) /\ tasks[t].pc \in {"check", "clear"}) => TaskHoldsLock(t)

\* C12 (as claimed): no LogEntry row exists for a record while the task still
\* has tags of it to resolve, and a record handleError was called with has a
\* LogEntry row only if it was add_tags that failed.
C12_ResolveBeforeWrite ==
    /\ \A t \in TaskIds :
           (Alive(t) /\ tasks[t].pc = "tag") => EntriesOf(RecIdOf(tasks[t])) = {}
    /\ \A h \in handlers : \A r \in RangeOf(errors[h]) :
           EntriesOf(r) # {} => CallCount(Call("add_tags", "entry", r, FALSE)) > 0

\* The sink is Idle with nothing queued.
IdleAndEmpty(h) == emitter[h] = NoTask /\ QueueOf(h) = <<>>

\* The emitter flag of some sink names a task that an exception has ended.
FlagNamesDeadTask ==
    \E h \in handlers : emitter[h] # NoTask /\ tasks[emitter[h]].pc = "dead"

\* C13 (as claimed): under fair scheduling, unless connect() has ended the
\* drain task, every sink is Idle with an empty queue from some point on
\* (the emit calls stop, their number being bounded).
C13_Retires == <>[](FlagNamesDeadTask \/ \A h \in handlers : IdleAndEmpty(h))

\* C14 (as claimed): a flag that names a task ended by a failed connect is
\* cleared, the sink going back to Idle.
C14_RecoversAfterConnectFailure == FlagNamesDeadTask ~> ~FlagNamesDeadTask

\* C15 (as claimed): with no emit in progress on a sink and none of its tasks
\* in the connect step, the handler lock is free.
C15_LockNeverLeaked ==
    \A h \in handlers :
        (Emitting(h) = {} /\ ~\E t \in AliveTasksOf(h) : tasks[t].pc = "connect")
            => lockOwner[h] = NoThread

\* How often connect() has returned a connection to sink h.
Connected(h) == CallCount(Call("connect", "db", h, TRUE))

\* C16: for each sink connect() succeeds at most once, self.db is set exactly
\* when it has, and no drain task is in the connect step once it is set: a
\* later drain task goes straight to the queue.
C16_SingleConnection ==
    \A h \in handlers :
        /\ Connected(h) <= 1
        /\ db[h] <=> Connected(h) = 1
        /\ db[h] => ~\E t \in TaskIds : tasks[t].h = h /\ tasks[t].pc = "connect"

\* C16 witness: the task that connected has retired and a second drain task
\* of the sink is inside async_emit, one connect() call having succeeded.
C16_Witness ==
    \E h \in handlers : \E t \in TaskIds, u \in TaskIds :
        /\ tasks[t].h = h /\ tasks[t].pc = "done"
        /\ tasks[u].h = h /\ tasks[u].pc \in StagePcs
        /\ db[h]
        /\ Connected(h) = 1

\* C17: in every step, every key of every cache stays in the cache and keeps
\* the row id it maps to.
C17_CacheEntriesKept ==
    [][\A c \in Tables : \A k \in DOMAIN caches[c] :
           /\ k \in DOMAIN caches'[c]
           /\ caches'[c][k].pk = caches[c][k].pk]_vars

\* C17 witness: the source cache holds two paths, the first of them cached
\* two records before the third record was processed.
C17_Witness ==
    /\ DOMAIN caches["source"] = {ShapeA.pathname, ShapeC.pathname}
    /\ \E h \in handlers : Len(attempts[h]) = 3 /\ Cardinality(Completed(h)) = 3
    /\ emitted[1].pathname # emitted[2].pathname

\* Every cached value is a row of the store, returned by a get_or_create call
\* that succeeded.
CachedRowsAreStored ==
    \A c \in Tables : \A k \in DOMAIN caches[c] :
        /\ caches[c][k].pk \in DOMAIN tables[c]
        /\ tables[c][caches[c][k].pk] = caches[c][k].key
        /\ CallCount(Call("get_or_create", c, caches[c][k].key, TRUE)) >= 1

\* C18: a step in which handleError is called changes no cache, every cached
\* value is a row the store returned, and a key is in a cache only after a
\* get_or_create for it succeeded (so a key whose get_or_create failed is
\* asked for again).
C18_FailureLeavesCaches ==
    /\ []CachedRowsAreStored
    /\ [][errors' # errors => caches' = caches]_vars

\* C18 witness: get_or_create failed for the function of the first record,
\* whose source was cached; the second record took the source from the cache
\* and its get_or_create for the function was issued again and succeeded.
C18_Witness ==
    /\ \E h \in handlers : errors[h] = <<1>> /\ Len(attempts[h]) >= 2
    /\ CallCount(Call("get_or_create", "source", ShapeA.pathname, TRUE)) = 1
    /\ \E k \in DOMAIN caches["function"] :
           /\ CallCount(Call("get_or_create", "function", caches["function"][k].key, FALSE)) = 1
           /\ CallCount(Call("get_or_create", "function", caches["function"][k].key, TRUE)) = 1

====
